---------------------------- MODULE Spec2Model ----------------------------
(***************************************************************************)
(* A model of the openebs "smart" library: the SCSI generic (sg)           *)
(* pass-through executor, the SCSI command layer, the device type          *)
(* resolver, the two callers (cmd/main.go and smartinfo.DiskDetail) and    *)
(* the ATA IDENTIFY DEVICE decoders.                                        *)
(*                                                                         *)
(* The specifications share the variables:                                 *)
(*   Spec         the process: main or DiskDetail driving one device       *)
(*   SpecDecode   the pure IDENTIFY decoders applied to a 16-bit word      *)
(*   SpecCapacity readCapacity applied to an 8-byte READ CAPACITY reply    *)
(*   SpecWWN      GetWWN applied to the four WWN words                     *)
(*   SpecSwap     swapByteOrder applied to a byte slice                    *)
(*   SpecHandle   a library client calling Open, the commands and Close    *)
(***************************************************************************)
EXTENDS Integers, Sequences, FiniteSets, TLC

VARIABLES
    \* ---- the process (Spec) ----
    pc,            \* position of the caller (main / DiskDetail)
    entry,         \* "main" or "DiskDetail"
    devPath,       \* the -devPath flag / the device argument
    nativeEndian,  \* utilities.NativeEndian, set by init()
    openFds,       \* the kernel's table of open descriptors of the process
    d,             \* the SCSIDevice handle: [Name, fd]
    dev,           \* the Dev returned by DetectSCSIType: "nil", "SCSI", "SATA"
    err,           \* the error value in the caller's hands
    inq,           \* the InquiryResponse last decoded
    capacity,      \* the capacity last returned by readCapacity
    identifyBuf,   \* the IdentDevData last decoded
    diskAttr,      \* the DiskAttr returned by GetDiskInfo
    stdout,        \* the error lines printed by the callers
    exitCode,      \* -1 while running, else the process exit status
    deferred,      \* TRUE once "defer d.Close()" is registered
    closes,        \* the results of the Close calls made, in order
    lastExec,      \* the last execSCSIGeneric call: what the kernel did, what it returned
    log,           \* the pass-through transactions issued, in order
    calls,         \* the calls a library client made on the handle, in order (SpecHandle)
    \* ---- the pure functions (SpecDecode, SpecCapacity, SpecWWN, SpecSwap) ----
    word,          \* the 16-bit IDENTIFY word under decode
    reply,         \* the 8-byte READ CAPACITY(10) reply of the device
    wwn,           \* IdentDevData.WWN: the four words 108..111
    buf,           \* the byte slice handed to swapByteOrder
    fn,            \* the function applied last ("none" before any)
    ret            \* what it returned

progVars == <<pc, entry, devPath, nativeEndian, openFds, d, dev, err, inq, capacity,
              identifyBuf, diskAttr, stdout, exitCode, deferred, closes, lastExec, log,
              calls>>
pureVars == <<word, reply, wwn, buf, fn, ret>>
vars == <<progVars, pureVars>>

-----------------------------------------------------------------------------
(* Machine integers *)

\* a uint16
Word16 == 0..65535

RECURSIVE Pow2(_)
Pow2(n) == IF n = 0 THEN 1 ELSE 2 * Pow2(n - 1)

\* a & b on non-negative integers
RECURSIVE BitAnd(_, _)
BitAnd(a, b) ==
    IF a = 0 \/ b = 0 THEN 0
    ELSE (a % 2) * (b % 2) + 2 * BitAnd(a \div 2, b \div 2)

\* x >> n
ShiftRight(x, n) == x \div Pow2(n)

\* uint16(x) << n : the result keeps 16 bits
ShiftLeft16(x, n) == (x * Pow2(n)) % 65536

\* uint8 arithmetic
Add8(a, b) == (a + b) % 256

\* math/bits.Len: the number of bits needed to represent x
RECURSIVE BitsLen(_)
BitsLen(x) == IF x = 0 THEN 0 ELSE 1 + BitsLen(x \div 2)

\* a plausible slip: the 1-based position of the top bit
MSignificantBitOneBased(x) == BitsLen(x)

\* utilities.MSignificantBit
MSignificantBit(x) == IF x = 0 THEN 0 ELSE BitsLen(x) - 1

-----------------------------------------------------------------------------
(* fmt.Sprintf verbs used by the decoders *)

HexDigits == <<"0", "1", "2", "3", "4", "5", "6", "7",
               "8", "9", "a", "b", "c", "d", "e", "f">>

\* the hexadecimal digits of n, at least `digits` of them (zero padded)
RECURSIVE HexPad(_, _)
HexPad(n, digits) ==
    IF n < 16 /\ digits <= 1 THEN HexDigits[n + 1]
    ELSE HexPad(n \div 16, digits - 1) \o HexDigits[(n % 16) + 1]

\* "%#0Wx": with the zero flag the width W pads the digits, then 0x is put in front
SprintfSharp0x(width, n) == "0x" \o HexPad(n, width)

-----------------------------------------------------------------------------
(* atasmart: the IDENTIFY DEVICE decoders *)

NoMajorVersion == "This device does not report ATA major version"
NoTransport    == "This device does not report transport"

ATAMajorLabels == <<"ATA-1", "ATA-2", "ATA-3", "ATA/ATAPI-4", "ATA/ATAPI-5",
                    "ATA/ATAPI-6", "ATA/ATAPI-7", "ATA8-ACS", "ACS-2", "ACS-3">>

SATALabels == <<" ATA8-AST", " SATA 1.0a", " SATA II Ext", " SATA 2.5",
                " SATA 2.6", " SATA 3.0", " SATA 3.1", " SATA 3.2">>

\* IdentDevData.GetATAMajorVersion
GetATAMajorVersion(MajorVer) ==
    IF MajorVer = 0 \/ MajorVer = 65535 THEN NoMajorVersion
    ELSE LET i == MSignificantBit(MajorVer)
         IN  IF i \in 1..10 THEN ATAMajorLabels[i] ELSE ""

\* IdentDevData.GetSectorSize: <<LogSec, PhySec>>, both uint16
GetSectorSize(SectorSize) ==
    IF BitAnd(SectorSize, 49152) = 16384 /\ BitAnd(SectorSize, 8192) # 0
    THEN <<512, ShiftLeft16(512, BitAnd(SectorSize, 15))>>
    ELSE <<512, 512>>

\* a plausible slip: the revision is looked up by the raw low 12 bits
TransportByValue(TransportMajor) ==
    IF TransportMajor = 0 \/ TransportMajor = 65535 THEN NoTransport
    ELSE LET top == ShiftRight(TransportMajor, 12)
             low == BitAnd(TransportMajor, 4095)
         IN  CASE top = 0  -> "Parallel ATA"
               [] top = 1  -> "Serial ATA" \o
                                (IF low \in 0..7 THEN SATALabels[low + 1]
                                 ELSE " SATA (" \o SprintfSharp0x(3, low) \o ")")
               [] top = 14 -> "PCIe (" \o SprintfSharp0x(3, low) \o ")"
               [] OTHER    -> "Unknown (" \o SprintfSharp0x(4, TransportMajor) \o ")"

\* IdentDevData.Transport
Transport(TransportMajor) ==
    IF TransportMajor = 0 \/ TransportMajor = 65535 THEN NoTransport
    ELSE LET top == ShiftRight(TransportMajor, 12)
             low == BitAnd(TransportMajor, 4095)
             i   == MSignificantBit(low)
         IN  CASE top = 0  -> "Parallel ATA"
               [] top = 1  -> "Serial ATA" \o
                                (IF i \in 0..7 THEN SATALabels[i + 1]
                                 ELSE " SATA (" \o SprintfSharp0x(3, low) \o ")")
               [] top = 14 -> "PCIe (" \o SprintfSharp0x(3, low) \o ")"
               [] OTHER    -> "Unknown (" \o SprintfSharp0x(4, TransportMajor) \o ")"


\* the ATA minor version codes of Table 47 that GetATAMinorVersion knows
ataMinorVersions ==
    [c \in ({1, 2, 3, 4, 5, 6, 7, 8, 9, 10, 11, 12, 13, 14, 15, 16, 17, 18, 19, 20,
             21, 22, 23, 24, 25, 26, 27, 28, 29, 30, 31, 33, 34, 39, 40, 41, 49, 51,
             57, 66, 82, 94, 109, 130, 263, 266, 272, 283}) |->
        CASE c = 1   -> "ATA-1 X3T9.2/781D prior to revision 4"
          [] c = 2   -> "ATA-1 published, ANSI X3.221-1994"
          [] c = 3   -> "ATA-1 X3T9.2/781D revision 4"
          [] c = 4   -> "ATA-2 published, ANSI X3.279-1996"
          [] c = 5   -> "ATA-2 X3T10/948D prior to revision 2k"
          [] c = 6   -> "ATA-3 X3T10/2008D revision 1"
          [] c = 7   -> "ATA-2 X3T10/948D revision 2k"
          [] c = 8   -> "ATA-3 X3T10/2008D revision 0"
          [] c = 9   -> "ATA-2 X3T10/948D revision 3"
          [] c = 10  -> "ATA-3 published, ANSI X3.298-1997"
          [] c = 11  -> "ATA-3 X3T10/2008D revision 6"
          [] c = 12  -> "ATA-3 X3T13/2008D revision 7 and 7a"
          [] c = 13  -> "ATA/ATAPI-4 X3T13/1153D revision 6"
          [] c = 14  -> "ATA/ATAPI-4 T13/1153D revision 13"
          [] c = 15  -> "ATA/ATAPI-4 X3T13/1153D revision 7"
          [] c = 16  -> "ATA/ATAPI-4 T13/1153D revision 18"
          [] c = 17  -> "ATA/ATAPI-4 T13/1153D revision 15"
          [] c = 18  -> "ATA/ATAPI-4 published, ANSI NCITS 317-1998"
          [] c = 19  -> "ATA/ATAPI-5 T13/1321D revision 3"
          [] c = 20  -> "ATA/ATAPI-4 T13/1153D revision 14"
          [] c = 21  -> "ATA/ATAPI-5 T13/1321D revision 1"
          [] c = 22  -> "ATA/ATAPI-5 published, ANSI NCITS 340-2000"
          [] c = 23  -> "ATA/ATAPI-4 T13/1153D revision 17"
          [] c = 24  -> "ATA/ATAPI-6 T13/1410D revision 0"
          [] c = 25  -> "ATA/ATAPI-6 T13/1410D revision 3a"
          [] c = 26  -> "ATA/ATAPI-7 T13/1532D revision 1"
          [] c = 27  -> "ATA/ATAPI-6 T13/1410D revision 2"
          [] c = 28  -> "ATA/ATAPI-6 T13/1410D revision 1"
          [] c = 29  -> "ATA/ATAPI-7 published, ANSI INCITS 397-2005"
          [] c = 30  -> "ATA/ATAPI-7 T13/1532D revision 0"
          [] c = 31  -> "ACS-3 T13/2161-D revision 3b"
          [] c = 33  -> "ATA/ATAPI-7 T13/1532D revision 4a"
          [] c = 34  -> "ATA/ATAPI-6 published, ANSI INCITS 361-2002"
          [] c = 39  -> "ATA8-ACS T13/1699-D revision 3c"
          [] c = 40  -> "ATA8-ACS T13/1699-D revision 6"
          [] c = 41  -> "ATA8-ACS T13/1699-D revision 4"
          [] c = 49  -> "ACS-2 T13/2015-D revision 2"
          [] c = 51  -> "ATA8-ACS T13/1699-D revision 3e"
          [] c = 57  -> "ATA8-ACS T13/1699-D revision 4c"
          [] c = 66  -> "ATA8-ACS T13/1699-D revision 3f"
          [] c = 82  -> "ATA8-ACS T13/1699-D revision 3b"
          [] c = 94  -> "ACS-4 T13/BSR INCITS 529 revision 5"
          [] c = 109 -> "ACS-3 T13/2161-D revision 5"
          [] c = 130 -> "ACS-2 published, ANSI INCITS 482-2012"
          [] c = 263 -> "ATA8-ACS T13/1699-D revision 2d"
          [] c = 266 -> "ACS-3 published, ANSI INCITS 522-2014"
          [] c = 272 -> "ACS-2 T13/2015-D revision 3"
          [] c = 283 -> "ACS-3 T13/2161-D revision 4"]

\* IdentDevData.GetATAMinorVersion
GetATAMinorVersion(MinorVer) ==
    IF MinorVer = 0 \/ MinorVer = 65535
    THEN "This device does not report ATA minor version"
    ELSE IF MinorVer \in DOMAIN ataMinorVersions THEN ataMinorVersions[MinorVer]
    ELSE "unknown"

\* a plausible slip: the swap done in place without a temporary, b[i] = b[i+1] and
\* then b[i+1] = b[i]
swapByteOrderInPlace(b) ==
    [i \in 1..Len(b) |-> IF i % 2 = 1 THEN b[i + 1] ELSE b[i]]

\* IdentDevData.swapByteOrder: tmp[i], tmp[i+1] = b[i+1], b[i] for i = 0, 2, ...
\* (b has even length at every call site: 20, 8 and 40 bytes)
swapByteOrder(b) ==
    [i \in 1..Len(b) |-> IF i % 2 = 1 THEN b[i + 1] ELSE b[i - 1]]

\* a plausible slip: the low 12 bits of W0 shifted left in 16 bits, without uint32()
GetWWNFields16(WWN) ==
    <<ShiftRight(WWN[1], 12),
      ShiftLeft16(BitAnd(WWN[1], 4095), 12) + ShiftRight(WWN[2], 4),
      <<BitAnd(WWN[2], 15), WWN[3], WWN[4]>>>>

\* IdentDevData.GetWWN: <<NAA, IEEEOUI, UniqueID>> before formatting.  UniqueID is
\* 36 bits wide and is kept as <<its top 4 bits, W2, W3>>.
GetWWNFields(WWN) ==
    <<ShiftRight(WWN[1], 12),
      BitAnd(WWN[1], 4095) * 4096 + ShiftRight(WWN[2], 4),
      <<BitAnd(WWN[2], 15), WWN[3], WWN[4]>>>>

\* IdentDevData.GetWWN: fmt.Sprintf("%x %06x %09x", NAA, IEEEOUI, UniqueID)
GetWWN(WWN) ==
    LET f == GetWWNFields(WWN)
    IN  HexPad(f[1], 1) \o " " \o HexPad(f[2], 6) \o " " \o
        HexPad(f[3][1], 1) \o HexPad(f[3][2], 4) \o HexPad(f[3][3], 4)

-----------------------------------------------------------------------------
(* Unsigned integers wider than the checker's: a value is the sequence of   *)
(* its bytes, least significant first.                                      *)

Zeros(n) == [i \in 1..n |-> 0]

\* the value of x in n bytes: zero-extended, or cut to its low n bytes
Resize(x, n) == [i \in 1..n |-> IF i <= Len(x) THEN x[i] ELSE 0]

\* carries propagated through the column sums c; the carry out of the last is dropped
RECURSIVE Carry(_, _)
Carry(c, carry) ==
    IF c = <<>> THEN <<>>
    ELSE <<(c[1] + carry) % 256>> \o Carry(Tail(c), (c[1] + carry) \div 256)

RECURSIVE SumTo(_, _)
SumTo(f, n) == IF n = 0 THEN 0 ELSE f[n] + SumTo(f, n - 1)

\* (x + 1) in n bytes, wrapping at 256^n
Inc(x, n) == Carry([i \in 1..n |-> IF i = 1 THEN Resize(x, n)[1] + 1 ELSE Resize(x, n)[i]], 0)

\* (x * y) in n bytes, wrapping at 256^n
Mul(x, y, n) ==
    LET a == Resize(x, n)
        b == Resize(y, n)
        col(k) == SumTo([i \in 1..k |-> a[i] * b[k + 1 - i]], k)
    IN  Carry([k \in 1..n |-> col(k)], 0)

\* binary.BigEndian.Uint32(b[off:]): the four bytes b[off..off+3], as a value
BigEndianUint32(b, off) == <<b[off + 4], b[off + 3], b[off + 2], b[off + 1]>>

\* binary.BigEndian.Uint16(b[off:]) and its little-endian twin, as integers
BigEndianUint16(b, off)    == b[off + 1] * 256 + b[off + 2]
LittleEndianUint16(b, off) == b[off + 2] * 256 + b[off + 1]

-----------------------------------------------------------------------------
(* scsismart: constants *)

SGDxferFromDev == -3
SGInfoOkMask   == 1
SGInfoOk       == 0
DefaultTimeout == 20000

SCSIInquiry        == 18
SCSIModeSense6     == 26
SCSIReadCapacity10 == 37
SCSIATAPassThru16  == 133
INQRespLen         == 36
RigidDiskDriveGeometryPage == 4
ModePageControlDefault     == 2
AtaIdentifyDevice  == 236

\* "ATA     ": the vendor id of a SCSI-ATA translated device
ATAVendorID == <<65, 84, 65, 32, 32, 32, 32, 32>>

-----------------------------------------------------------------------------
(* Errors.  Nil is the nil error; an errno is a failed system call; an      *)
(* sgIOErr is the structured device-status error; a wrapped error is what   *)
(* fmt.Errorf("<prefix>: %v", err) builds.                                   *)

Nil == [kind |-> "nil"]
Errno(e) == [kind |-> "errno", errno |-> e]
Errorf(prefix, e) == [kind |-> "wrapped", prefix |-> prefix, cause |-> e]

-----------------------------------------------------------------------------
(* The kernel's side of one SG_IO ioctl: whether the call itself failed,    *)
(* the status fields it leaves in the header, and how many bytes of the     *)
(* device's reply it copied into the response buffer.                       *)

KernelOutcome(sys, info, st, xfer) ==
    [sys |-> sys, info |-> info, status |-> st[1], hostStatus |-> st[2],
     driverStatus |-> st[3], xfer |-> xfer]

\* the transfer lengths tried for a buffer of n bytes: nothing, half, all
XferLens(n) == {0, n \div 2, n}

\* the values of the header's info field tried: 0..MaxInfo
MaxInfo == 3

\* what ioctl(fd, SG_IO, hdr) may do on a buffer of n bytes
KernelOutcomes(fdOpen, n) ==
    IF ~fdOpen THEN {KernelOutcome("EBADF", 0, <<0, 0, 0>>, 0)}
    ELSE {KernelOutcome("EIO", 0, <<0, 0, 0>>, 0)} \cup
         {KernelOutcome("ok", i, st, x) :
             i \in 0..MaxInfo, st \in {<<0, 0, 0>>, <<2, 7, 8>>}, x \in XferLens(n)}

\* the response buffer after the call: make([]byte, n), then the bytes the kernel copied
ResponseBuffer(n, k, data) ==
    [i \in 1..n |-> IF k.sys = "ok" /\ i <= k.xfer THEN data[i] ELSE 0]

-----------------------------------------------------------------------------
(* scsismart: the generic I/O executor *)

\* a plausible slip: host and driver status stored in each other's field
execSCSIGenericSwapped(k) ==
    IF k.sys # "ok" THEN Errno(k.sys)
    ELSE IF BitAnd(k.info, SGInfoOkMask) # SGInfoOk
         THEN [kind |-> "sgIOErr", scsiStatus |-> k.status,
               hostStatus |-> k.driverStatus, driverStatus |-> k.hostStatus]
         ELSE Nil

\* SCSIDevice.execSCSIGeneric, given what the ioctl did
execSCSIGeneric(k) ==
    IF k.sys # "ok" THEN Errno(k.sys)
    ELSE IF BitAnd(k.info, SGInfoOkMask) # SGInfoOk
         THEN [kind |-> "sgIOErr", scsiStatus |-> k.status,
               hostStatus |-> k.hostStatus, driverStatus |-> k.driverStatus]
         ELSE Nil

\* a plausible slip: the header built without its timeout field (0: the driver's
\* default)
sendCDBNoTimeout(cdb, n, k, data) ==
    [hdr     |-> [interfaceID |-> "S", dxferDirection |-> SGDxferFromDev,
                  timeout |-> 0, cmdLen |-> Len(cdb), mxSBLen |-> 32,
                  dxferLen |-> n],
     respBuf |-> ResponseBuffer(n, k, data),
     err     |-> execSCSIGeneric(k)]

\* SCSIDevice.sendCDB: the header it builds, the buffer after the call, the error
sendCDB(cdb, n, k, data) ==
    [hdr     |-> [interfaceID |-> "S", dxferDirection |-> SGDxferFromDev,
                  timeout |-> DefaultTimeout, cmdLen |-> Len(cdb), mxSBLen |-> 32,
                  dxferLen |-> n],
     respBuf |-> ResponseBuffer(n, k, data),
     err     |-> execSCSIGeneric(k)]

-----------------------------------------------------------------------------
(* scsismart: the SCSI command layer *)

ZeroInquiryResponse ==
    [Peripheral |-> 0, Version |-> 0, VendorID |-> Zeros(8),
     ProductID |-> Zeros(16), ProductRev |-> Zeros(4)]

\* binary.Read(respBuf, NativeEndian, &response): every field is a byte or a byte
\* array, so the byte order plays no part
ReadInquiryResponse(b) ==
    [Peripheral |-> b[1], Version |-> b[3], VendorID |-> SubSeq(b, 9, 16),
     ProductID |-> SubSeq(b, 17, 32), ProductRev |-> SubSeq(b, 33, 36)]

\* the INQUIRY CDB: CDB6{SCSIInquiry}, PutUint16(cdb[3:], len(respBuf))
InquiryCDB == <<SCSIInquiry, 0, 0, INQRespLen \div 256, INQRespLen % 256, 0>>

\* SCSIDevice.SCSIInquiry
SCSIDevice_SCSIInquiry(k, data) ==
    LET r == sendCDB(InquiryCDB, INQRespLen, k, data)
    IN  IF r.err # Nil
        THEN [response |-> ZeroInquiryResponse, err |-> r.err, io |-> r]
        ELSE [response |-> ReadInquiryResponse(r.respBuf), err |-> Nil, io |-> r]

\* the MODE SENSE(6) CDB
ModeSenseCDB(pageNo, subPageNo, pageCtrl) ==
    <<SCSIModeSense6, 0, ((pageCtrl * 64) % 256) + (pageNo % 64), subPageNo, 64, 0>>

\* SCSIDevice.modeSense: the buffer is returned with or without an error
modeSense(pageNo, subPageNo, pageCtrl, k, data) ==
    LET r == sendCDB(ModeSenseCDB(pageNo, subPageNo, pageCtrl), 64, k, data)
    IN  [respBuf |-> r.respBuf, err |-> r.err, io |-> r]

ReadCapacityCDB == <<SCSIReadCapacity10, 0, 0, 0, 0, 0, 0, 0, 0, 0>>

\* a plausible slip: the product taken in 32 bits, then widened
readCapacity32(k, data) ==
    LET r == sendCDB(ReadCapacityCDB, 8, k, data)
        lastLBA == BigEndianUint32(r.respBuf, 0)
        LBsize  == BigEndianUint32(r.respBuf, 4)
    IN  IF r.err # Nil
        THEN [capacity |-> Zeros(8), err |-> r.err, io |-> r]
        ELSE [capacity |-> Resize(Mul(Inc(lastLBA, 4), LBsize, 4), 8),
              err |-> Nil, io |-> r]

\* SCSIDevice.readCapacity: (uint64(lastLBA) + 1) * uint64(LBsize)
readCapacity(k, data) ==
    LET r == sendCDB(ReadCapacityCDB, 8, k, data)
        lastLBA == BigEndianUint32(r.respBuf, 0)
        LBsize  == BigEndianUint32(r.respBuf, 4)
    IN  IF r.err # Nil
        THEN [capacity |-> Zeros(8), err |-> r.err, io |-> r]
        ELSE [capacity |-> Mul(Inc(Resize(lastLBA, 8), 8), Resize(LBsize, 8), 8),
              err |-> Nil, io |-> r]

\* the zero value of atasmart.IdentDevData (its named fields)
ZeroIdentDevData ==
    [SerialNumber |-> Zeros(20), FirmwareRev |-> Zeros(8), ModelNumber |-> Zeros(40),
     MajorVer |-> 0, MinorVer |-> 0, Word85 |-> 0, Word87 |-> 0, SectorSize |-> 0,
     WWN |-> <<0, 0, 0, 0>>, RotationRate |-> 0, TransportMajor |-> 0]

\* binary.Read(responseBuf, NativeEndian, &identifyBuf): byte arrays are copied, each
\* uint16 at word w is read from bytes 2w, 2w+1 in the host's byte order
ReadIdentDevData(b, order) ==
    LET u16(w) == IF order = "LittleEndian" THEN LittleEndianUint16(b, 2 * w)
                  ELSE BigEndianUint16(b, 2 * w)
    IN  [SerialNumber |-> SubSeq(b, 21, 40), FirmwareRev |-> SubSeq(b, 47, 54),
         ModelNumber |-> SubSeq(b, 55, 94),
         MajorVer |-> u16(80), MinorVer |-> u16(81), Word85 |-> u16(85),
         Word87 |-> u16(87), SectorSize |-> u16(106),
         WWN |-> <<u16(108), u16(109), u16(110), u16(111)>>,
         RotationRate |-> u16(217), TransportMajor |-> u16(222)]

\* the ATA PASS-THROUGH(16) CDB of AtaIdentify
AtaIdentifyCDB ==
    <<SCSIATAPassThru16, 8, 14, 0, 0, 0, 0, 0, 0, 0, 0, 0, 0, 0, AtaIdentifyDevice, 0>>

\* a plausible slip: the error of sendCDB dropped, as SCSIDevice.GetDiskInfo does with
\* readCapacity's
AtaIdentifyErrorDropped(k, data, order) ==
    LET r == sendCDB(AtaIdentifyCDB, 512, k, data)
    IN  [identifyBuf |-> ReadIdentDevData(r.respBuf, order), err |-> Nil, io |-> r]

\* SATA.AtaIdentify
AtaIdentify(k, data, order) ==
    LET r == sendCDB(AtaIdentifyCDB, 512, k, data)
    IN  IF r.err # Nil
        THEN [identifyBuf |-> ZeroIdentDevData,
              err |-> Errorf("sendCDB ATA IDENTIFY", r.err), io |-> r]
        ELSE [identifyBuf |-> ReadIdentDevData(r.respBuf, order), err |-> Nil, io |-> r]

\* DiskAttr{}: the zero value (strings of bytes are kept as byte sequences)
ZeroDiskAttr ==
    [SCSIInquiry |-> ZeroInquiryResponse, VendorID |-> 0, UserCapacity |-> Zeros(8),
     LBSize |-> 0, PBSize |-> 0, SerialNumber |-> <<>>, LuWWNDeviceID |-> "",
     FirmwareRevision |-> <<>>, ModelNumber |-> <<>>, RotationRate |-> 0,
     ATAMajorVersion |-> "", ATAMinorVersion |-> "", Transport |-> ""]

\* the record SATA.GetDiskInfo fills once its three commands succeeded
SATADiskAttr(inqResp, inqCapacity, id) ==
    [SCSIInquiry |-> inqResp, VendorID |-> 0, UserCapacity |-> inqCapacity,
     LBSize |-> GetSectorSize(id.SectorSize)[1],
     PBSize |-> GetSectorSize(id.SectorSize)[2],
     SerialNumber |-> swapByteOrder(id.SerialNumber),
     LuWWNDeviceID |-> GetWWN(id.WWN),
     FirmwareRevision |-> swapByteOrder(id.FirmwareRev),
     ModelNumber |-> swapByteOrder(id.ModelNumber),
     RotationRate |-> id.RotationRate,
     ATAMajorVersion |-> GetATAMajorVersion(id.MajorVer),
     ATAMinorVersion |-> GetATAMinorVersion(id.MinorVer),
     Transport |-> Transport(id.TransportMajor)]

\* the record SCSIDevice.GetDiskInfo returns: the capacity alone
SCSIDiskAttr(cap) == [ZeroDiskAttr EXCEPT !.UserCapacity = cap]

\* a plausible slip: only the letters "ATA" are compared, not the padding
ClassifyByPrefix(response) ==
    IF SubSeq(response.VendorID, 1, 3) = SubSeq(ATAVendorID, 1, 3) THEN "SATA" ELSE "SCSI"

\* the device type DetectSCSIType settles on from the INQUIRY response
Classify(response) ==
    IF response.VendorID = ATAVendorID THEN "SATA" ELSE "SCSI"

-----------------------------------------------------------------------------
(* The devices tried: what a device may answer to each command *)

\* INQUIRY data: a direct-access device with the given vendor id
InquiryData(vendor) ==
    <<0, 0, 5, 2, 31, 0, 0, 0>> \o vendor \o
    [i \in 1..16 |-> 64 + i] \o <<48, 49, 50, 51>>

\* vendor ids: "ATA     ", every one-byte departure from it by NUL, space or 'A',
\* and an unrelated one ("SEAGATE ")
VendorIDs ==
    {ATAVendorID, <<83, 69, 65, 71, 65, 84, 69, 32>>} \cup
    {[ATAVendorID EXCEPT ![i] = b] : i \in 1..8, b \in {0, 32, 65}}

\* the vendor ids tried for the second INQUIRY of a device already classified as
\* ATA: the same answer, or another device's
InfoVendorIDs == {ATAVendorID, <<83, 69, 65, 71, 65, 84, 69, 32>>}

\* 0 blocks+1 of 512; 234441647+1 of 512; the largest pair
CapacityReplies ==
    {<<0, 0, 0, 0, 0, 0, 2, 0>>, <<13, 249, 75, 175, 0, 0, 2, 0>>,
     <<255, 255, 255, 255, 255, 255, 255, 255>>}

\* MODE SENSE(6) data with mode data length 63 and block descriptor length bd
ModeSenseData(bd) ==
    [i \in 1..64 |-> IF i = 1 THEN 63 ELSE IF i = 4 THEN bd ELSE i]

ModeSenseBdLens == {0, 8, 38, 39, 40, 231, 232, 255}

\* an IDENTIFY DEVICE page: words go out low byte first
IdentifyPage(strings, words) ==
    [i \in 1..512 |->
        LET w == (i - 1) \div 2
        IN  IF i \in 21..40 THEN strings[1][i - 20]
            ELSE IF i \in 47..54 THEN strings[2][i - 46]
            ELSE IF i \in 55..94 THEN strings[3][i - 54]
            ELSE IF w \in DOMAIN words
                 THEN (IF (i - 1) % 2 = 0 THEN words[w] % 256 ELSE words[w] \div 256)
            ELSE 0]

IdentifyStrings ==
    <<[i \in 1..20 |-> 48 + i], [i \in 1..8 |-> 96 + i], [i \in 1..40 |-> 64 + i]>>

\* a 4K-sector SATA 3.0 disk, and one that reports nothing
IdentifyPages ==
    {IdentifyPage(IdentifyStrings,
                  (80 :> 1008) @@ (81 :> 40) @@ (85 :> 29801) @@ (87 :> 16739) @@
                  (106 :> 24579) @@ (108 :> 20480) @@ (109 :> 50432) @@ (110 :> 18) @@
                  (111 :> 13398) @@ (217 :> 7200) @@ (222 :> 4128)),
     IdentifyPage(<<Zeros(20), Zeros(8), Zeros(40)>>, (80 :> 65535) @@ (222 :> 65535))}

-----------------------------------------------------------------------------
(* The process: cmd/main.go (PrintDiskInfo) or smartinfo.DiskDetail          *)
(* (GetDiskInfo) on one device path.                                         *)

NoExec == [cdb |-> <<>>, hdr |-> <<>>, k |-> <<>>, respBuf |-> <<>>, ret |-> Nil]

\* the record of one execSCSIGeneric call
Exec(cdb, r, k) == [cdb |-> cdb, hdr |-> r.hdr, k |-> k, respBuf |-> r.respBuf, ret |-> r.err]

\* the transaction as the kernel saw it, with the executor's verdict
Transaction(cdb, r) ==
    [fd |-> d.fd, op |-> cdb[1], dxferDirection |-> r.hdr.dxferDirection,
     timeout |-> r.hdr.timeout, dxferLen |-> r.hdr.dxferLen, result |-> r.err]

pureIdle ==
    word = 0 /\ reply = <<>> /\ wwn = <<0, 0, 0, 0>> /\ buf = <<>> /\ fn = "none" /\ ret = <<>>

\* the process before main / DiskDetail has touched a device
progFresh ==
    /\ pc = "start"
    /\ openFds = {0, 1, 2}
    /\ d = [Name |-> "", fd |-> 0]
    /\ dev = "nil"
    /\ err = Nil
    /\ inq = ZeroInquiryResponse
    /\ capacity = Zeros(8)
    /\ identifyBuf = ZeroIdentDevData
    /\ diskAttr = ZeroDiskAttr
    /\ stdout = <<>>
    /\ exitCode = -1
    /\ deferred = FALSE
    /\ closes = <<>>
    /\ lastExec = NoExec
    /\ log = <<>>
    /\ calls = <<>>

Init ==
    /\ entry \in {"main", "DiskDetail"}
    /\ devPath \in {"", "/dev/sda"}
    /\ nativeEndian \in {"LittleEndian", "BigEndian"}
    /\ progFresh
    /\ pureIdle

\* no device path: DiskDetail returns the zero DiskAttr; main scans, or prints its
\* usage and exits 1
NoDevice ==
    /\ pc = "start" /\ devPath = ""
    /\ IF entry = "DiskDetail"
       THEN pc' = "done" /\ exitCode' = exitCode
       ELSE \E devScan \in BOOLEAN :
                /\ pc' = "exited"
                /\ exitCode' = IF devScan THEN 0 ELSE 1
    /\ UNCHANGED <<calls, entry, devPath, nativeEndian, openFds, d, dev, err, inq, capacity,
                   identifyBuf, diskAttr, stdout, deferred, closes, lastExec, log>>
    /\ UNCHANGED pureVars

\* DetectSCSIType, first half: dev := SCSIDevice{Name: name}; dev.Open()
Open ==
    /\ pc = "start" /\ devPath # ""
    /\ \E r \in {"ok", "ENOENT", "EACCES"} :
          IF r = "ok"
          THEN LET newfd == CHOOSE n \in 0..3 : n \notin openFds /\
                                \A m \in 0..3 : m \notin openFds => n <= m
               IN  /\ openFds' = openFds \cup {newfd}
                   /\ d' = [Name |-> devPath, fd |-> newfd]
                   /\ err' = Nil
                   /\ pc' = "opened"
          ELSE /\ openFds' = openFds
               /\ d' = [Name |-> devPath, fd |-> -1]
               /\ err' = Errno(r)
               /\ pc' = "detect_ret"
    /\ UNCHANGED <<calls, entry, devPath, nativeEndian, dev, inq, capacity, identifyBuf,
                   diskAttr, stdout, exitCode, deferred, closes, lastExec, log>>
    /\ UNCHANGED pureVars

\* DetectSCSIType, second half: the INQUIRY, the classification and the return
DetectInquiry ==
    /\ pc = "opened"
    /\ \E k \in KernelOutcomes(d.fd \in openFds, INQRespLen), vendor \in VendorIDs :
          LET r == SCSIDevice_SCSIInquiry(k, InquiryData(vendor))
          IN  /\ lastExec' = Exec(InquiryCDB, r.io, k)
              /\ log' = Append(log, Transaction(InquiryCDB, r.io))
              /\ inq' = r.response
              /\ err' = r.err
              /\ dev' = IF r.err # Nil THEN "nil" ELSE Classify(r.response)
    /\ pc' = "detect_ret"
    /\ UNCHANGED <<calls, entry, devPath, nativeEndian, openFds, d, capacity, identifyBuf,
                   diskAttr, stdout, exitCode, deferred, closes>>
    /\ UNCHANGED pureVars

\* the caller after DetectSCSIType: print the error and os.Exit(1), or defer d.Close()
AfterDetect ==
    /\ pc = "detect_ret"
    /\ IF err # Nil
       THEN /\ stdout' = Append(stdout, err)
            /\ exitCode' = 1
            /\ pc' = "exited"
            /\ deferred' = deferred
       ELSE /\ deferred' = TRUE
            /\ pc' = "info"
            /\ UNCHANGED <<stdout, exitCode>>
    /\ inq' = ZeroInquiryResponse
    /\ UNCHANGED <<calls, entry, devPath, nativeEndian, openFds, d, dev, err, capacity,
                   identifyBuf, diskAttr, closes, lastExec, log>>
    /\ UNCHANGED pureVars

\* SATA.GetDiskInfo / SATA.PrintDiskInfo, first command: the standard INQUIRY
SATAInquiry ==
    /\ pc = "info" /\ dev = "SATA"
    /\ \E k \in KernelOutcomes(d.fd \in openFds, INQRespLen), vendor \in InfoVendorIDs :
          LET r == SCSIDevice_SCSIInquiry(k, InquiryData(vendor))
          IN  /\ lastExec' = Exec(InquiryCDB, r.io, k)
              /\ log' = Append(log, Transaction(InquiryCDB, r.io))
              /\ IF r.err # Nil
                 THEN /\ err' = Errorf("SgExecute INQUIRY", r.err)
                      /\ inq' = inq
                      /\ pc' = "info_ret"
                 ELSE /\ err' = Nil
                      /\ inq' = r.response
                      /\ pc' = "sata_cap"
    /\ UNCHANGED <<calls, entry, devPath, nativeEndian, openFds, d, dev, capacity, identifyBuf,
                   diskAttr, stdout, exitCode, deferred, closes>>
    /\ UNCHANGED pureVars

\* SATA.GetDiskInfo / SATA.PrintDiskInfo, second command: READ CAPACITY(10)
SATAReadCapacity ==
    /\ pc = "sata_cap"
    /\ \E k \in KernelOutcomes(d.fd \in openFds, 8), data \in CapacityReplies :
          LET r == readCapacity(k, data)
          IN  /\ lastExec' = Exec(ReadCapacityCDB, r.io, k)
              /\ log' = Append(log, Transaction(ReadCapacityCDB, r.io))
              /\ IF r.err # Nil
                 THEN /\ err' = Errorf("SgExecute readCapacity", r.err)
                      /\ capacity' = capacity
                      /\ pc' = "info_ret"
                 ELSE /\ err' = Nil
                      /\ capacity' = r.capacity
                      /\ pc' = "sata_ident"
    /\ UNCHANGED <<calls, entry, devPath, nativeEndian, openFds, d, dev, inq, identifyBuf,
                   diskAttr, stdout, exitCode, deferred, closes>>
    /\ UNCHANGED pureVars

\* SATA.GetDiskInfo / SATA.PrintDiskInfo, third command: ATA IDENTIFY, then the
\* record is filled (GetDiskInfo) or printed (PrintDiskInfo)
SATAAtaIdentify ==
    /\ pc = "sata_ident"
    /\ \E k \in KernelOutcomes(d.fd \in openFds, 512), data \in IdentifyPages :
          LET r == AtaIdentify(k, data, nativeEndian)
          IN  /\ lastExec' = Exec(AtaIdentifyCDB, r.io, k)
              /\ log' = Append(log, Transaction(AtaIdentifyCDB, r.io))
              /\ err' = r.err
              /\ IF r.err # Nil
                 THEN UNCHANGED <<identifyBuf, diskAttr>>
                 ELSE /\ identifyBuf' = r.identifyBuf
                      /\ diskAttr' = IF entry = "DiskDetail"
                                     THEN SATADiskAttr(inq, capacity, r.identifyBuf)
                                     ELSE diskAttr
    /\ pc' = "info_ret"
    /\ UNCHANGED <<calls, entry, devPath, nativeEndian, openFds, d, dev, inq, capacity,
                   stdout, exitCode, deferred, closes>>
    /\ UNCHANGED pureVars

\* SCSIDevice.GetDiskInfo (whole), or the first command of SCSIDevice.PrintDiskInfo:
\* capacity, _ := d.readCapacity()
SCSIReadCapacity ==
    /\ pc = "info" /\ dev = "SCSI"
    /\ \E k \in KernelOutcomes(d.fd \in openFds, 8), data \in CapacityReplies :
          LET r == readCapacity(k, data)
          IN  /\ lastExec' = Exec(ReadCapacityCDB, r.io, k)
              /\ log' = Append(log, Transaction(ReadCapacityCDB, r.io))
              /\ capacity' = r.capacity
              /\ diskAttr' = IF entry = "DiskDetail" THEN SCSIDiskAttr(r.capacity)
                             ELSE diskAttr
    /\ err' = Nil
    /\ pc' = IF entry = "DiskDetail" THEN "info_ret" ELSE "scsi_ms"
    /\ UNCHANGED <<calls, entry, devPath, nativeEndian, openFds, d, dev, inq, identifyBuf,
                   stdout, exitCode, deferred, closes>>
    /\ UNCHANGED pureVars

\* the index PrintDiskInfo reads the rotation rate at: offset := bdLen + 4 and
\* offset+20, both in uint8
RotationRateIndex(response) == Add8(Add8(response[4], 4), 20)

\* SCSIDevice.PrintDiskInfo, the rest: response, _ := d.modeSense(...), then the
\* rotation rate read at response[offset+20:]; a slice or index out of range panics
SCSIModeSense ==
    /\ pc = "scsi_ms"
    /\ \E k \in KernelOutcomes(d.fd \in openFds, 64), bd \in ModeSenseBdLens :
          LET cdb == ModeSenseCDB(RigidDiskDriveGeometryPage, 0, ModePageControlDefault)
              r   == modeSense(RigidDiskDriveGeometryPage, 0, ModePageControlDefault,
                               k, ModeSenseData(bd))
              idx == RotationRateIndex(r.respBuf)
          IN  /\ lastExec' = Exec(cdb, r.io, k)
              /\ log' = Append(log, Transaction(cdb, r.io))
              /\ IF idx > 64 \/ 64 - idx < 2
                 THEN /\ pc' = "panicking"
                      /\ stdout' = stdout
                 ELSE /\ pc' = "info_ret"
                      /\ stdout' = Append(stdout,
                             [kind |-> "RPM", index |-> idx,
                              value |-> BigEndianUint16(r.respBuf, idx)])
    /\ err' = Nil
    /\ UNCHANGED <<calls, entry, devPath, nativeEndian, openFds, d, dev, inq, capacity,
                   identifyBuf, diskAttr, exitCode, deferred, closes>>
    /\ UNCHANGED pureVars

\* the caller after GetDiskInfo / PrintDiskInfo: print the error and os.Exit(1)
\* (deferred calls are not run), or fall off the end of the function
AfterInfo ==
    /\ pc = "info_ret"
    /\ IF err # Nil
       THEN /\ stdout' = Append(stdout, err)
            /\ exitCode' = 1
            /\ pc' = "exited"
       ELSE /\ pc' = "returning"
            /\ UNCHANGED <<stdout, exitCode>>
    /\ UNCHANGED <<calls, entry, devPath, nativeEndian, openFds, d, dev, err, inq, capacity,
                   identifyBuf, diskAttr, deferred, closes, lastExec, log>>
    /\ UNCHANGED pureVars

\* SCSIDevice.Close as unix.Close(d.fd) leaves the descriptor table and returns
Close(fd, r) ==
    [openFds |-> openFds \ {fd},
     err     |-> IF fd \notin openFds THEN Errno("EBADF")
                 ELSE IF r = "ok" THEN Nil ELSE Errno(r)]

\* the deferred d.Close() runs on return and on panic; its result is discarded
DeferredClose ==
    /\ pc \in {"returning", "panicking"} /\ deferred
    /\ \E r \in {"ok", "EIO"} :
          LET c == Close(d.fd, r)
          IN  /\ openFds' = c.openFds
              /\ closes' = Append(closes, c.err)
    /\ IF pc = "returning"
       THEN /\ pc' = "done"
            /\ exitCode' = IF entry = "main" THEN 0 ELSE exitCode
       ELSE /\ pc' = "exited"
            /\ exitCode' = 2
    /\ UNCHANGED <<calls, entry, devPath, nativeEndian, d, dev, err, inq, capacity,
                   identifyBuf, diskAttr, stdout, deferred, lastExec, log>>
    /\ UNCHANGED pureVars

Next ==
    \/ NoDevice
    \/ Open
    \/ DetectInquiry
    \/ AfterDetect
    \/ SATAInquiry
    \/ SATAReadCapacity
    \/ SATAAtaIdentify
    \/ SCSIReadCapacity
    \/ SCSIModeSense
    \/ AfterInfo
    \/ DeferredClose

Spec == Init /\ [][Next]_vars

-----------------------------------------------------------------------------
(* SpecDecode: the IDENTIFY decoders, each applied to every 16-bit word *)

progIdle ==
    /\ entry = "DiskDetail" /\ devPath = "" /\ nativeEndian = "LittleEndian"
    /\ progFresh

InitDecode ==
    /\ progIdle
    /\ word \in Word16
    /\ reply = <<>>
    /\ wwn = <<0, 0, 0, 0>>
    /\ buf = <<>>
    /\ fn = "none"
    /\ ret = <<>>

ApplyGetATAMajorVersion ==
    /\ fn = "none"
    /\ fn' = "GetATAMajorVersion"
    /\ ret' = GetATAMajorVersion(word)
    /\ UNCHANGED <<word, reply, wwn, buf>>
    /\ UNCHANGED progVars

ApplyGetATAMinorVersion ==
    /\ fn = "none"
    /\ fn' = "GetATAMinorVersion"
    /\ ret' = GetATAMinorVersion(word)
    /\ UNCHANGED <<word, reply, wwn, buf>>
    /\ UNCHANGED progVars

ApplyGetSectorSize ==
    /\ fn = "none"
    /\ fn' = "GetSectorSize"
    /\ ret' = GetSectorSize(word)
    /\ UNCHANGED <<word, reply, wwn, buf>>
    /\ UNCHANGED progVars

ApplyTransport ==
    /\ fn = "none"
    /\ fn' = "Transport"
    /\ ret' = Transport(word)
    /\ UNCHANGED <<word, reply, wwn, buf>>
    /\ UNCHANGED progVars

NextDecode ==
    \/ ApplyGetATAMajorVersion
    \/ ApplyGetATAMinorVersion
    \/ ApplyGetSectorSize
    \/ ApplyTransport

SpecDecode == InitDecode /\ [][NextDecode]_vars

-----------------------------------------------------------------------------
(* SpecCapacity: readCapacity on every reply of a family of 8-byte replies *)

\* every reply whose bytes are all 0x00 or 0xFF, every reply with a single byte of
\* 1, 2 or 0x80, and the two replies the capacity examples name
CapacityInputs ==
    {b \in [1..8 -> {0, 255}] : TRUE} \cup
    {[Zeros(8) EXCEPT ![i] = v] : i \in 1..8, v \in {1, 2, 128}} \cup
    {<<0, 0, 0, 0, 0, 0, 2, 0>>, <<13, 249, 75, 175, 0, 0, 2, 0>>}

InitCapacity ==
    /\ progIdle
    /\ word = 0
    /\ reply \in CapacityInputs
    /\ wwn = <<0, 0, 0, 0>>
    /\ buf = <<>>
    /\ fn = "none"
    /\ ret = <<>>

ApplyReadCapacity ==
    /\ fn = "none"
    /\ \E k \in KernelOutcomes(TRUE, 8) :
          LET r == readCapacity(k, reply)
          IN  ret' = [capacity |-> r.capacity, err |-> r.err, k |-> k,
                      respBuf |-> r.io.respBuf]
    /\ fn' = "readCapacity"
    /\ UNCHANGED <<word, reply, wwn, buf>>
    /\ UNCHANGED progVars

NextCapacity == ApplyReadCapacity

SpecCapacity == InitCapacity /\ [][NextCapacity]_vars

-----------------------------------------------------------------------------
(* Claims about the decoders (SpecDecode) and readCapacity (SpecCapacity) *)

\* bit k is the most significant set bit of v
TopBitIs(v, k) == Pow2(k) <= v /\ v < Pow2(k + 1)

\* the part of the transport decode that does not depend on which bit of the low
\* 12 bits is the top one
TransportFrame ==
    LET top == word \div 4096
        low == word % 4096
    IN  /\ word \in {0, 65535} => ret = "This device does not report transport"
        /\ word # 0 /\ top = 0 => ret = "Parallel ATA"
        /\ top = 1 =>
             /\ \A k \in 0..7 :
                   TopBitIs(low, k) =>
                      ret = "Serial ATA " \o
                            <<"ATA8-AST", "SATA 1.0a", "SATA II Ext", "SATA 2.5",
                              "SATA 2.6", "SATA 3.0", "SATA 3.1", "SATA 3.2">>[k + 1]
             /\ low >= 256 => ret = "Serial ATA SATA (0x" \o HexPad(low, 3) \o ")"
        /\ top = 14 => ret = "PCIe (0x" \o HexPad(low, 3) \o ")"
        /\ top \notin {0, 1, 14} /\ word # 65535 =>
             ret = "Unknown (0x" \o HexPad(word, 4) \o ")"

\* C7 (as stated): the transport decode by cases on the top nibble and on the most
\* significant set bit of the low 12 bits, and in particular 0x1005 decodes to
\* "Serial ATA SATA 3.0"
TransportDecodeAsClaimed ==
    fn = "Transport" =>
        /\ TransportFrame
        /\ word = 4101 => ret = "Serial ATA SATA 3.0"

\* C7 (amended): the transport decode by cases on the top nibble and on the most
\* significant set bit of the low 12 bits (taken as bit 0 when the low 12 bits are
\* all zero); 0x1020 decodes to "Serial ATA SATA 3.0", and 0x1005, whose top bit
\* of the low 12 is bit 2, to "Serial ATA SATA II Ext"
TransportDecode ==
    fn = "Transport" =>
        /\ TransportFrame
        /\ word = 4096 => ret = "Serial ATA ATA8-AST"
        /\ word = 4128 => ret = "Serial ATA SATA 3.0"
        /\ word = 4101 => ret = "Serial ATA SATA II Ext"

\* C7 witness: Transport has decoded 0x1020 as SATA 3.0
TransportDecodeWitness ==
    fn = "Transport" /\ word = 4128 /\ ret = "Serial ATA SATA 3.0"

\* C8 (as stated): the logical size is 512 and the physical size is
\* 512 * 2^(w & 0xF), without wrap-around, exactly when bits 15:14 of w are 01 and
\* bit 13 is set, and 512 otherwise
SectorSizeDecodeAsClaimed ==
    fn = "GetSectorSize" =>
        /\ ret[1] = 512
        /\ ret[2] = IF word \div 16384 = 1 /\ (word \div 8192) % 2 = 1
                    THEN 512 * Pow2(word % 16)
                    ELSE 512

\* C10: the major version decode: "not reported" for 0 and 0xFFFF, else the label
\* of the most significant set bit k (k = 1..10: ATA-1 .. ACS-3), else the empty
\* string; 0x0010 decodes to ATA/ATAPI-4
ATAMajorVersionDecode ==
    fn = "GetATAMajorVersion" =>
        /\ word \in {0, 65535} => ret = "This device does not report ATA major version"
        /\ word \notin {0, 65535} =>
             \A k \in 0..15 :
                TopBitIs(word, k) =>
                   ret = IF k \in 1..10
                         THEN <<"ATA-1", "ATA-2", "ATA-3", "ATA/ATAPI-4", "ATA/ATAPI-5",
                                "ATA/ATAPI-6", "ATA/ATAPI-7", "ATA8-ACS", "ACS-2",
                                "ACS-3">>[k]
                         ELSE ""
        /\ word = 16 => ret = "ATA/ATAPI-4"

\* C10 witness: GetATAMajorVersion has decoded 0x0010 as ATA/ATAPI-4
ATAMajorVersionWitness ==
    fn = "GetATAMajorVersion" /\ word = 16 /\ ret = "ATA/ATAPI-4"

\* C9: readCapacity reads lastLBA from bytes 0..3 and the block size from bytes
\* 4..7 of the response buffer, both big-endian, and returns (lastLBA + 1) * size
\* exactly (the product, taken in 9 bytes where it cannot wrap, has the returned
\* 8 bytes and a zero ninth); a fully transferred reply is the buffer; when the
\* command fails it returns 0 with the error
CapacityIs64BitProduct ==
    fn = "readCapacity" =>
        LET b == ret.respBuf
            lastLBA == <<b[4], b[3], b[2], b[1]>>
            LBsize  == <<b[8], b[7], b[6], b[5]>>
        IN  /\ ret.err # Nil <=> (ret.k.sys # "ok" \/ ret.k.info % 2 = 1)
            /\ ret.err # Nil => ret.capacity = Zeros(8)
            /\ ret.err = Nil => Resize(ret.capacity, 9) = Mul(Inc(lastLBA, 5), LBsize, 9)
            /\ ret.k.sys = "ok" /\ ret.k.xfer = 8 => b = reply
            /\ ret.err = Nil /\ b = <<0, 0, 0, 0, 0, 0, 2, 0>> =>
                 ret.capacity = <<0, 2, 0, 0, 0, 0, 0, 0>>
            /\ ret.err = Nil /\ b = <<13, 249, 75, 175, 0, 0, 2, 0>> =>
                 ret.capacity = <<0, 96, 151, 242, 27, 0, 0, 0>>

\* C9 witness: readCapacity has returned 120034123776 for lastLBA = 234441647 and
\* 512-byte blocks
CapacityWitness ==
    /\ fn = "readCapacity"
    /\ reply = <<13, 249, 75, 175, 0, 0, 2, 0>>
    /\ ret.err = Nil
    /\ ret.capacity = <<0, 96, 151, 242, 27, 0, 0, 0>>

-----------------------------------------------------------------------------
(* Claims about the process (Spec) *)

\* the handle holds a descriptor that Open obtained
Opened == d.Name # "" /\ d.fd # -1

\* a routine that had the handle has ended: DetectSCSIType returned no device, or
\* the caller returned or exited
RoutineEnded == pc \in {"done", "exited"} \/ (pc = "detect_ret" /\ dev = "nil")

\* C1 (as stated): once a routine that opened the device has ended, on whichever
\* path, the descriptor has been closed
HandleClosedOnEveryExit == Opened /\ RoutineEnded => d.fd \notin openFds

\* C2: execSCSIGeneric returns nil exactly when the ioctl succeeded and info has
\* its OK bit clear; a failed ioctl comes back as that errno and nothing else; a
\* successful ioctl with the bit set comes back as an sgIOErr carrying exactly the
\* header's SCSI, host and driver status
ExecutorVerdict ==
    lastExec.cdb # <<>> =>
        LET k == lastExec.k
            e == lastExec.ret
        IN  /\ e = [kind |-> "nil"] <=> (k.sys = "ok" /\ k.info % 2 = 0)
            /\ k.sys # "ok" => e = [kind |-> "errno", errno |-> k.sys]
            /\ k.sys = "ok" /\ k.info % 2 = 1 =>
                 e = [kind |-> "sgIOErr", scsiStatus |-> k.status,
                      hostStatus |-> k.hostStatus, driverStatus |-> k.driverStatus]

\* C2 witness: a command came back with a device-status error carrying the three
\* status fields of the header
ExecutorVerdictWitness ==
    /\ lastExec.cdb # <<>>
    /\ lastExec.k.sys = "ok" /\ lastExec.k.info = 1 /\ lastExec.k.hostStatus = 7
    /\ lastExec.ret.kind = "sgIOErr"
    /\ lastExec.ret.scsiStatus = 2
    /\ lastExec.ret.hostStatus = 7
    /\ lastExec.ret.driverStatus = 8

\* C3 (as stated): when a command issued by GetDiskInfo or PrintDiskInfo failed,
\* the operation returns an error to its caller
NoCommandErrorSwallowed ==
    pc = "info_ret" /\ (\E i \in 2..Len(log) : log[i].result # Nil) => err # Nil

\* C4 (as stated): a Close that failed is reported by the caller
CloseFailureReported ==
    \A i \in 1..Len(closes) :
        closes[i] # Nil =>
            \E j \in 1..Len(stdout) : stdout[j].kind = "errno" /\ stdout[j] = closes[i]

\* C5: DetectSCSIType returns the SATA variant exactly when bytes 8..15 of the
\* INQUIRY response are "ATA" and five spaces, the plain SCSI variant for every
\* other vendor id, and no device exactly when Open or the INQUIRY failed
DetectClassification ==
    pc = "detect_ret" =>
        /\ dev = "SATA" <=>
             (err = Nil /\ SubSeq(lastExec.respBuf, 9, 16) = <<65, 84, 65, 32, 32, 32, 32, 32>>)
        /\ dev = "SCSI" <=>
             (err = Nil /\ SubSeq(lastExec.respBuf, 9, 16) # <<65, 84, 65, 32, 32, 32, 32, 32>>)
        /\ dev = "nil" <=> err # Nil
        /\ err # Nil <=> (d.fd = -1 \/ lastExec.ret # Nil)

\* C5 witness: a vendor id of "ATA" with other padding came back as plain SCSI
DetectClassificationWitness ==
    /\ pc = "detect_ret"
    /\ dev = "SCSI"
    /\ SubSeq(lastExec.respBuf, 9, 16) = <<65, 84, 65, 32, 32, 32, 32, 0>>

\* C6 (as stated): SCSIInquiry and AtaIdentify fail when fewer bytes than the
\* command's size (36, 512) were captured
ShortResponseRejected ==
    /\ pc \in {"detect_ret", "sata_cap", "info_ret"}
    /\ lastExec.cdb # <<>>
    /\ lastExec.cdb[1] \in {SCSIInquiry, SCSIATAPassThru16}
    /\ lastExec.k.sys = "ok"
    /\ lastExec.k.xfer < lastExec.hdr.dxferLen
    => err # Nil

-----------------------------------------------------------------------------
(* SpecWWN: GetWWN on quadruples of WWN words *)

\* the words tried: no bit, every bit, and one bit at each edge of a field
WWNWords == {0, 65535} \cup {Pow2(k) : k \in {0, 3, 4, 11, 12, 15}}

\* every quadruple of those, and the WWN 5 000c50 000123456
WWNInputs == [1..4 -> WWNWords] \cup {<<20480, 50432, 18, 13398>>}

InitWWN ==
    /\ progIdle
    /\ word = 0
    /\ reply = <<>>
    /\ wwn \in WWNInputs
    /\ buf = <<>>
    /\ fn = "none"
    /\ ret = <<>>

ApplyGetWWN ==
    /\ fn = "none"
    /\ fn' = "GetWWN"
    /\ ret' = [fields |-> GetWWNFields(wwn), text |-> GetWWN(wwn)]
    /\ UNCHANGED <<word, reply, wwn, buf>>
    /\ UNCHANGED progVars

NextWWN == ApplyGetWWN

SpecWWN == InitWWN /\ [][NextWWN]_vars

-----------------------------------------------------------------------------
(* Claims about GetWWN (SpecWWN) *)

\* x with bit k inverted
FlipBit(x, k) == IF (x \div Pow2(k)) % 2 = 1 THEN x - Pow2(k) ELSE x + Pow2(k)

\* the input bits <<word, bit>> whose inversion changes field f of the decode of W
BitsFeeding(W, f) ==
    {p \in (1..4) \X (0..15) :
        GetWWNFields([W EXCEPT ![p[1]] = FlipBit(W[p[1]], p[2])])[f] # GetWWNFields(W)[f]}

\* the four words put back together from <<NAA, IEEEOUI, UniqueID>>
WWNWordsOf(f) ==
    <<f[1] * 4096 + f[2] \div 4096, (f[2] % 4096) * 16 + f[3][1], f[3][2], f[3][3]>>

\* the decode as worded: the values of the three fields, each input bit in exactly
\* one field, and the quadruple recoverable from the triple
WWNFieldsAsWorded ==
    /\ ret.fields[1] = wwn[1] \div 4096
    /\ ret.fields[2] = (wwn[1] % 4096) * 4096 + wwn[2] \div 16
    /\ ret.fields[3] = <<wwn[2] % 16, wwn[3], wwn[4]>>
    /\ \A p \in (1..4) \X (0..15) :
          Cardinality({f \in 1..3 : p \in BitsFeeding(wwn, f)}) = 1
    /\ WWNWordsOf(ret.fields) = wwn

\* C11 as stated: NAA is the top 4 bits of W0, the OUI the low 12 bits of W0 then the
\* top 12 bits of W1, the unique id the low 4 bits of W1 then W2 then W3, a field of
\* 40 bits; every input bit is used exactly once, so the decode is one-to-one.
WWNDecodeAsClaimed ==
    fn = "GetWWN" =>
        /\ WWNFieldsAsWorded
        /\ Cardinality(BitsFeeding(wwn, 1)) = 4
        /\ Cardinality(BitsFeeding(wwn, 2)) = 24
        /\ Cardinality(BitsFeeding(wwn, 3)) = 40

\* C11 amended: the same decode, the unique id being a field of 36 bits
\* (4 + 16 + 16), so that the three fields hold 4 + 24 + 36 = 64 bits.
WWNDecode ==
    fn = "GetWWN" =>
        /\ WWNFieldsAsWorded
        /\ Cardinality(BitsFeeding(wwn, 1)) = 4
        /\ Cardinality(BitsFeeding(wwn, 2)) = 24
        /\ Cardinality(BitsFeeding(wwn, 3)) = 36

\* the words 0x5000 0xC500 0x0012 0x3456 decoded: NAA 5, OUI 0x000c50, unique id
\* 0x000123456
WWNDecodeWitness ==
    /\ fn = "GetWWN"
    /\ wwn = <<20480, 50432, 18, 13398>>
    /\ ret.fields = <<5, 3152, <<0, 18, 13398>>>>
    /\ ret.text = "5 000c50 000123456"

-----------------------------------------------------------------------------
(* SpecSwap: swapByteOrder on byte slices of even length, applied once and   *)
(* then to its own result                                                    *)

\* the longest slice enumerated byte by byte has 2 * MaxPairs bytes
MaxPairs == 3

\* every slice of up to MaxPairs pairs over the bytes 0x00, 0x41, 0xFF, and the three
\* fields the getters pass: serial number (20), firmware revision (8), model (40)
SwapInputs ==
    UNION {[1..(2 * n) -> {0, 65, 255}] : n \in 0..MaxPairs} \cup
    {IdentifyStrings[i] : i \in 1..3}

InitSwap ==
    /\ progIdle
    /\ word = 0
    /\ reply = <<>>
    /\ wwn = <<0, 0, 0, 0>>
    /\ buf \in SwapInputs
    /\ fn = "none"
    /\ ret = <<>>

\* swapByteOrder(b)
ApplySwapByteOrder ==
    /\ fn = "none"
    /\ fn' = "swapByteOrder"
    /\ ret' = swapByteOrder(buf)
    /\ UNCHANGED <<word, reply, wwn, buf>>
    /\ UNCHANGED progVars

\* swapByteOrder(swapByteOrder(b))
ApplySwapByteOrderAgain ==
    /\ fn = "swapByteOrder"
    /\ fn' = "swapByteOrder twice"
    /\ ret' = swapByteOrder(ret)
    /\ UNCHANGED <<word, reply, wwn, buf>>
    /\ UNCHANGED progVars

NextSwap ==
    \/ ApplySwapByteOrder
    \/ ApplySwapByteOrderAgain

SpecSwap == InitSwap /\ [][NextSwap]_vars

-----------------------------------------------------------------------------
(* Claims about swapByteOrder (SpecSwap) *)

\* C12: on a slice of even length the result has the same length and holds each
\* adjacent pair (b[2i], b[2i+1]) as (b[2i+1], b[2i]); applied to its own result,
\* swapByteOrder gives the slice back.
SwapIsInvolution ==
    /\ fn = "swapByteOrder" =>
          /\ Len(ret) = Len(buf)
          /\ \A i \in 0..(Len(buf) \div 2 - 1) :
                ret[2 * i + 1] = buf[2 * i + 2] /\ ret[2 * i + 2] = buf[2 * i + 1]
    /\ fn = "swapByteOrder twice" => ret = buf

\* the 20-byte serial number "123..." swapped twice; its pairs differ, so the first
\* swap changed it
SwapIsInvolutionWitness ==
    /\ fn = "swapByteOrder twice"
    /\ buf = IdentifyStrings[1]
    /\ Len(buf) = 20
    /\ swapByteOrder(buf) # buf
    /\ ret = buf

-----------------------------------------------------------------------------
(* SpecHandle: a client of the library holding one SCSIDevice and calling    *)
(* Open, the commands and Close on it in any order                           *)

\* the longest sequence of calls tried
MaxCalls == 4

\* the ioctl outcomes tried here: the call fails, the command completes, the device
\* reports a check condition
ClientOutcomes(n) ==
    {k \in KernelOutcomes(d.fd \in openFds, n) :
        k.sys = "ok" => /\ k.xfer = n
                        /\ k.info <= 1
                        /\ (k.info = 0 <=> k.status = 0)}

\* dev := SCSIDevice{Name: name}: the descriptor field holds 0 until Open is called
InitHandle ==
    /\ pc = "client"
    /\ entry = "client"
    /\ devPath = "/dev/sda"
    /\ nativeEndian \in {"LittleEndian", "BigEndian"}
    /\ openFds = {0, 1, 2}
    /\ d = [Name |-> "/dev/sda", fd |-> 0]
    /\ dev = "nil"
    /\ err = Nil
    /\ inq = ZeroInquiryResponse
    /\ capacity = Zeros(8)
    /\ identifyBuf = ZeroIdentDevData
    /\ diskAttr = ZeroDiskAttr
    /\ stdout = <<>>
    /\ exitCode = -1
    /\ deferred = FALSE
    /\ closes = <<>>
    /\ lastExec = NoExec
    /\ log = <<>>
    /\ calls = <<>>
    /\ pureIdle

\* one call of a command, as the client saw it
CommandCall(name, cdb, r) ==
    [op |-> name, fd |-> d.fd, err |-> r.err, txns |-> <<Transaction(cdb, r.io)>>,
     released |-> {}]

\* d.Open(): d.fd, err = unix.Open(d.Name, O_RDWR, 0600); on failure d.fd is -1
CallOpen ==
    /\ pc = "client" /\ Len(calls) < MaxCalls
    /\ \E r \in {"ok", "ENOENT"} :
          LET newfd == CHOOSE n \in 0..(3 + MaxCalls) :
                           n \notin openFds /\
                           \A m \in 0..(3 + MaxCalls) : m \notin openFds => n <= m
              fd    == IF r = "ok" THEN newfd ELSE -1
              e     == IF r = "ok" THEN Nil ELSE Errno(r)
          IN  /\ openFds' = IF r = "ok" THEN openFds \cup {newfd} ELSE openFds
              /\ d' = [d EXCEPT !.fd = fd]
              /\ err' = e
              /\ calls' = Append(calls, [op |-> "Open", fd |-> fd, err |-> e,
                                         txns |-> <<>>, released |-> {}])
    /\ UNCHANGED <<pc, entry, devPath, nativeEndian, dev, inq, capacity, identifyBuf,
                   diskAttr, stdout, exitCode, deferred, closes, lastExec, log>>
    /\ UNCHANGED pureVars

\* d.Close(): unix.Close(d.fd), whatever d.fd holds
CallClose ==
    /\ pc = "client" /\ Len(calls) < MaxCalls
    /\ \E r \in {"ok", "EIO"} :
          LET c == Close(d.fd, r)
          IN  /\ openFds' = c.openFds
              /\ closes' = Append(closes, c.err)
              /\ err' = c.err
              /\ calls' = Append(calls, [op |-> "Close", fd |-> d.fd, err |-> c.err,
                                         txns |-> <<>>,
                                         released |-> openFds \ c.openFds])
    /\ UNCHANGED <<pc, entry, devPath, nativeEndian, d, dev, inq, capacity, identifyBuf,
                   diskAttr, stdout, exitCode, deferred, lastExec, log>>
    /\ UNCHANGED pureVars

\* d.SCSIInquiry()
CallSCSIInquiry ==
    /\ pc = "client" /\ Len(calls) < MaxCalls
    /\ \E k \in ClientOutcomes(INQRespLen) :
          LET r == SCSIDevice_SCSIInquiry(k, InquiryData(ATAVendorID))
          IN  /\ lastExec' = Exec(InquiryCDB, r.io, k)
              /\ log' = Append(log, Transaction(InquiryCDB, r.io))
              /\ calls' = Append(calls, CommandCall("SCSIInquiry", InquiryCDB, r))
              /\ inq' = r.response
              /\ err' = r.err
    /\ UNCHANGED <<pc, entry, devPath, nativeEndian, openFds, d, dev, capacity,
                   identifyBuf, diskAttr, stdout, exitCode, deferred, closes>>
    /\ UNCHANGED pureVars

\* d.readCapacity(), reached through GetDiskInfo and PrintDiskInfo
CallReadCapacity ==
    /\ pc = "client" /\ Len(calls) < MaxCalls
    /\ \E k \in ClientOutcomes(8) :
          LET r == readCapacity(k, <<13, 249, 75, 175, 0, 0, 2, 0>>)
          IN  /\ lastExec' = Exec(ReadCapacityCDB, r.io, k)
              /\ log' = Append(log, Transaction(ReadCapacityCDB, r.io))
              /\ calls' = Append(calls, CommandCall("readCapacity", ReadCapacityCDB, r))
              /\ capacity' = r.capacity
              /\ err' = r.err
    /\ UNCHANGED <<pc, entry, devPath, nativeEndian, openFds, d, dev, inq, identifyBuf,
                   diskAttr, stdout, exitCode, deferred, closes>>
    /\ UNCHANGED pureVars

\* d.modeSense(RigidDiskDriveGeometryPage, 0, ModePageControlDefault), reached
\* through PrintDiskInfo
CallModeSense ==
    /\ pc = "client" /\ Len(calls) < MaxCalls
    /\ \E k \in ClientOutcomes(64) :
          LET cdb == ModeSenseCDB(RigidDiskDriveGeometryPage, 0, ModePageControlDefault)
              r   == modeSense(RigidDiskDriveGeometryPage, 0, ModePageControlDefault,
                               k, ModeSenseData(0))
          IN  /\ lastExec' = Exec(cdb, r.io, k)
              /\ log' = Append(log, Transaction(cdb, r.io))
              /\ calls' = Append(calls, CommandCall("modeSense", cdb, r))
              /\ err' = r.err
    /\ UNCHANGED <<pc, entry, devPath, nativeEndian, openFds, d, dev, inq, capacity,
                   identifyBuf, diskAttr, stdout, exitCode, deferred, closes>>
    /\ UNCHANGED pureVars

\* SATA{d}.AtaIdentify()
CallAtaIdentify ==
    /\ pc = "client" /\ Len(calls) < MaxCalls
    /\ \E k \in ClientOutcomes(512), data \in IdentifyPages :
          LET r == AtaIdentify(k, data, nativeEndian)
          IN  /\ lastExec' = Exec(AtaIdentifyCDB, r.io, k)
              /\ log' = Append(log, Transaction(AtaIdentifyCDB, r.io))
              /\ calls' = Append(calls, CommandCall("AtaIdentify", AtaIdentifyCDB, r))
              /\ identifyBuf' = r.identifyBuf
              /\ err' = r.err
    /\ UNCHANGED <<pc, entry, devPath, nativeEndian, openFds, d, dev, inq, capacity,
                   diskAttr, stdout, exitCode, deferred, closes>>
    /\ UNCHANGED pureVars

NextHandle ==
    \/ CallOpen
    \/ CallClose
    \/ CallSCSIInquiry
    \/ CallReadCapacity
    \/ CallModeSense
    \/ CallAtaIdentify

SpecHandle == InitHandle /\ [][NextHandle]_vars

-----------------------------------------------------------------------------
(* Claims about the handle's life cycle (SpecHandle) *)

\* the descriptor the handle holds after its first n calls: the one a successful Open
\* returned and no Close has been called on since, or -1
RECURSIVE Held(_)
Held(n) ==
    IF n = 0 THEN -1
    ELSE LET c == calls[n]
         IN  IF c.op = "Open" THEN (IF c.err = Nil THEN c.fd ELSE -1)
             ELSE IF c.op = "Close" THEN -1
             ELSE Held(n - 1)

\* the call came back with an error and touched no open descriptor
Rejected(c) ==
    /\ c.err # Nil
    /\ c.released = {}
    /\ \A i \in 1..Len(c.txns) : c.txns[i].result = Errno("EBADF")

\* C13: over any sequence of Open, command and Close calls, a call on a handle that
\* holds no descriptor (never opened, or closed) is rejected rather than used, the
\* handle releases no descriptor it did not obtain, and every descriptor it obtained
\* is either still held or was released.
HandleLifecycle ==
    /\ \A i \in 1..Len(calls) :
          (calls[i].op # "Open" /\ Held(i - 1) = -1) => Rejected(calls[i])
    /\ {0, 1, 2} \subseteq openFds
    /\ openFds \ {0, 1, 2} \subseteq {Held(Len(calls))}

-----------------------------------------------------------------------------
(* Claims about the executor's single transaction (Spec) *)

\* C14: every step in which the executor is called adds exactly one transaction to
\* those issued, from-device and with the 20000 ms timeout, and the call returns the
\* verdict on that one kernel call (nil, the system call's error, or the device
\* status) with the caller moving on: there is no second attempt.
ExecutorSingleShot ==
    [][/\ SubSeq(log', 1, Len(log)) = log
       /\ Len(log') \in {Len(log), Len(log) + 1}
       /\ lastExec' # lastExec => Len(log') = Len(log) + 1
       /\ Len(log') = Len(log) + 1 =>
             LET t == log'[Len(log')]
             IN  /\ t.dxferDirection = SGDxferFromDev
                 /\ t.timeout = DefaultTimeout
                 /\ t.op = lastExec'.cdb[1]
                 /\ t.result = execSCSIGeneric(lastExec'.k)
                 /\ lastExec'.ret = t.result
                 /\ pc' # pc]_vars

\* main on a SCSI disk: the INQUIRY succeeded, READ CAPACITY failed in the system
\* call, MODE SENSE came back with a device status; three calls, three transactions
ExecutorSingleShotWitness ==
    /\ Len(log) = 3
    /\ log[1].op = SCSIInquiry /\ log[1].result = Nil
    /\ log[2].op = SCSIReadCapacity10 /\ log[2].result = Errno("EIO")
    /\ log[3].op = SCSIModeSense6 /\ log[3].result.kind = "sgIOErr"
    /\ \A i \in 1..3 : log[i].timeout = DefaultTimeout

-----------------------------------------------------------------------------
(* Claims about the rotation rate read of SCSIDevice.PrintDiskInfo (Spec) *)

\* C15: whatever the 64-byte MODE SENSE buffer holds, PrintDiskInfo does not crash,
\* and the rotation rate it prints is the big-endian pair at index
\* 4 + blockDescriptorLength + 20, taken without wrap-around and lying inside the
\* buffer.
RotationRateReadInBounds ==
    /\ pc # "panicking"
    /\ exitCode # 2
    /\ \A i \in 1..Len(stdout) :
          stdout[i].kind = "RPM" =>
              LET response == lastExec.respBuf
                  index    == 4 + response[4] + 20
              IN  /\ stdout[i].index = index
                  /\ index + 2 <= Len(response)
                  /\ stdout[i].value = response[index + 1] * 256 + response[index + 2]

-----------------------------------------------------------------------------
(* Claims about SATA.GetDiskInfo (Spec, entered through DiskDetail) *)

\* the transactions of GetDiskInfo: those after the INQUIRY of DetectSCSIType
GetDiskInfoCommands == SubSeq(log, 2, Len(log))

\* GetDiskInfo has returned to DiskDetail
GetDiskInfoReturned == pc \in {"info_ret", "returning", "done", "exited"}

\* C16: SATA.GetDiskInfo issues INQUIRY, then READ CAPACITY(10), then ATA
\* PASS-THROUGH IDENTIFY; nothing is issued after a command that failed, and the call
\* then returns the zero DiskAttr with an error; the record holding the inquiry
\* response, the capacity and the IDENTIFY-decoded fields is returned only when all
\* three succeeded.
SATAGetDiskInfoOrder ==
    (entry = "DiskDetail" /\ dev = "SATA") =>
        LET cmds   == GetDiskInfoCommands
            order  == <<SCSIInquiry, SCSIReadCapacity10, SCSIATAPassThru16>>
            failed == \E i \in 1..Len(cmds) : cmds[i].result # Nil
        IN  /\ Len(cmds) <= 3
            /\ \A i \in 1..Len(cmds) : cmds[i].op = order[i]
            /\ \A i \in 1..(Len(cmds) - 1) : cmds[i].result = Nil
            /\ ~GetDiskInfoReturned => diskAttr = ZeroDiskAttr
            /\ GetDiskInfoReturned =>
                  /\ Len(cmds) >= 1
                  /\ Len(cmds) < 3 => failed
                  /\ IF failed
                     THEN diskAttr = ZeroDiskAttr /\ err # Nil
                     ELSE /\ err = Nil
                          /\ diskAttr.SCSIInquiry = inq
                          /\ diskAttr.UserCapacity = capacity
                          /\ diskAttr =
                               SATADiskAttr(inq, capacity,
                                   ReadIdentDevData(lastExec.respBuf, nativeEndian))
            /\ diskAttr # ZeroDiskAttr => Len(cmds) = 3 /\ ~failed

\* all three commands succeeded on the 4K-sector SATA 3.0 disk: the record is filled
SATAGetDiskInfoWitness ==
    /\ entry = "DiskDetail" /\ dev = "SATA" /\ pc = "info_ret"
    /\ Len(GetDiskInfoCommands) = 3
    /\ \A i \in 1..3 : GetDiskInfoCommands[i].result = Nil
    /\ err = Nil
    /\ diskAttr.LuWWNDeviceID = "5 000c50 000123456"
    /\ diskAttr.Transport = "Serial ATA SATA 3.0"
    /\ diskAttr.UserCapacity = capacity
    /\ diskAttr.SCSIInquiry.VendorID = ATAVendorID

=============================================================================
